---- MODULE Spec2Model ----
(***************************************************************************)
(* Model of the streaming analysis consumer (config/db/consumers.py):      *)
(* EmotionAnalysisConsumer with its handlers connect, receive, disconnect  *)
(* and its helpers analyze_frame, calculate_metrics, save_records and      *)
(* finalize_session.                                                       *)
(*                                                                         *)
(* One consumer instance is modelled.  Its Python attributes are the       *)
(* variables session, emotion_history and posture_history.  Everything the *)
(* consumer does to the outside (messages sent to the client, rows written *)
(* to the database, closing the transport) and everything it is handed     *)
(* (messages received, the result analyze_frame returned) is appended, in  *)
(* program order, to the history variable log.                             *)
(*                                                                         *)
(* Percentages are Python floats (count / total) * 100.  They are kept as  *)
(* exact fractions [n |-> count * 100, d |-> total]; a comparison pct > T  *)
(* is n > T * d.  For every total below 60 the float comparison and the    *)
(* exact one agree on the thresholds 35, 25 and 30.                        *)
(***************************************************************************)
EXTENDS Integers, Sequences, FiniteSets, TLC

VARIABLES
    conn,               \* transport: "new", "open", "closing", "closed"
    session,            \* self.session (id = 0 stands for None)
    emotion_history,    \* self.emotion_history
    posture_history,    \* self.posture_history
    log,                \* history: inputs and effects in program order
    budget,             \* messages the client may still send in this run
    models,             \* module globals of the two lazy getters, loads done
    threads,            \* position of each thread inside a getter
    instances,          \* the consumer instances of concurrent connections
    server              \* the event loop they share and the session table

vars == <<conn, session, emotion_history, posture_history, log, budget,
          models, threads, instances, server>>

----------------------------------------------------------------------------
(* Bounds and input sets *)

\* Messages one connection receives before the model stops feeding it.
MaxMsgs == 3

\* Labels the emotion classifier can return (DeepFace's seven categories).
Emotions == {"angry", "disgust", "fear", "happy", "sad", "surprise", "neutral"}

\* Python's None for result['emotion'].
NoEmotion == "none"

\* Dominant emotions the frames of a run carry.
FrameEmotions == {"sad", "fear", "happy"}

\* Posture flags <<head_down, hunched, hands_on_face>> the frames of a run carry.
FramePostures ==
    { <<FALSE, FALSE, FALSE>>, <<TRUE, FALSE, FALSE>>,
      <<FALSE, TRUE, FALSE>>, <<FALSE, FALSE, TRUE>> }

\* What the URL route and the Person table give connect().
PersonCases == {"known", "unknown", "absent"}

\* How base64.b64decode + cv2.imdecode fail on an image field:
\*   "raise": an exception (bad padding, missing key, empty buffer);
\*   "null": imdecode returned None (the bytes are no image).
DecodeFailures == {"raise", "null"}

----------------------------------------------------------------------------
(* Program constants *)

SadThreshold == 35
FearThreshold == 25
AngryThreshold == 30
FlushEvery == 10
\* head_down > total * 0.3, kept in integers: 10 * head_down > 3 * total.
PostureRatioNum == 3
PostureRatioDen == 10

----------------------------------------------------------------------------
(* Helpers *)

Range(s) == { s[i] : i \in DOMAIN s }

Count(s, x) == Cardinality({ i \in DOMAIN s : s[i] = x })

\* Variant of Pct that leaves out the factor 100.
PctFraction(count, total) == [n |-> count, d |-> total]

\* (count / total) * 100 as an exact fraction.
Pct(count, total) == [n |-> count * 100, d |-> total]

\* The literal 0 that dict.get(key, 0) falls back to.
ZeroPct == [n |-> 0, d |-> 1]

\* pcts.get(emo, 0)
PctGet(pcts, emo) == IF emo \in DOMAIN pcts THEN pcts[emo] ELSE ZeroPct

\* p > threshold
PctGt(p, threshold) == p.n > threshold * p.d

\* The AnalysisSession row that self.session refers to; id = 0 is None.
NoSession ==
    [ id |-> 0, ended |-> FALSE,
      happy_pct |-> ZeroPct, sad_pct |-> ZeroPct, angry_pct |-> ZeroPct,
      fear_pct |-> ZeroPct, surprise_pct |-> ZeroPct, disgust_pct |-> ZeroPct,
      neutral_pct |-> ZeroPct,
      head_down_count |-> 0, hunched_count |-> 0, hands_on_face_count |-> 0,
      overall_state |-> "stable" ]

\* AnalysisSession.objects.create(person=person): the model's defaults.
NewSession == [NoSession EXCEPT !.id = 1]

\* Truthiness of self.session.
HasSession(s) == s.id # 0

\* Log entries.
\* A received message: its type and, for a frame, what decoding its image
\* gives ("raster", or one of DecodeFailures); "-" for the other types.
Recv(type, image) == [k |-> "recv", type |-> type, image |-> image]
Send(msg) == [k |-> "send", msg |-> msg]
Analyzed(result) == [k |-> "analyze", result |-> result]
Db(op, row) == [k |-> "db", op |-> op, row |-> row]
SaveCall(ok) == [k |-> "save_records", ok |-> ok]
Closed == [k |-> "close"]
Dropped == [k |-> "disconnect"]

----------------------------------------------------------------------------
(* analyze_frame *)

\* Variant of analyze_frame that looks at hands_on_face before the emotion.
analyze_frame_hands_first(emotion, posture) ==
    LET head_down == posture[1]
        hunched == posture[2]
        hands_on_face == posture[3]
    IN  [ emotion |-> emotion,
          head_down |-> head_down,
          hunched |-> hunched,
          hands_on_face |-> hands_on_face,
          overall_state |->
              IF hands_on_face THEN "nervous"
              ELSE IF emotion \in {"sad", "fear", "angry"}
              THEN (IF head_down \/ hunched THEN "anxious" ELSE "stressed")
              ELSE "normal" ]

\* The result analyze_frame returns when the emotion step yields `emotion`
\* (NoEmotion when it raised) and the pose step yields the flags `posture`.
analyze_frame(emotion, posture) ==
    LET head_down == posture[1]
        hunched == posture[2]
        hands_on_face == posture[3]
    IN  [ emotion |-> emotion,
          head_down |-> head_down,
          hunched |-> hunched,
          hands_on_face |-> hands_on_face,
          overall_state |->
              IF emotion \in {"sad", "fear", "angry"}
              THEN (IF head_down \/ hunched THEN "anxious" ELSE "stressed")
              ELSE IF hands_on_face THEN "nervous"
              ELSE "normal" ]

----------------------------------------------------------------------------
(* calculate_metrics *)

EmptyMetrics ==
    [ total_frames |-> 0,
      emotion_percentages |-> << >>,
      posture_counts |-> [head_down |-> 0, hunched |-> 0, hands_on_face |-> 0],
      alerts |-> << >> ]

Alert(type, message, severity) ==
    [type |-> type, message |-> message, severity |-> severity]

\* Variant of Alerts whose rules are chained with elif: the first rule that
\* fires hides the others.
AlertsFirstMatch(emotion_pcts, posture_counts, total) ==
    IF PctGt(PctGet(emotion_pcts, "sad"), SadThreshold)
    THEN << Alert("high_sadness", "Tristeza elevada detectada", "medium") >>
    ELSE IF PctGt(PctGet(emotion_pcts, "fear"), FearThreshold)
    THEN << Alert("high_anxiety", "Ansiedad elevada detectada", "medium") >>
    ELSE IF PctGt(PctGet(emotion_pcts, "angry"), AngryThreshold)
    THEN << Alert("high_anger", "Irritabilidad elevada detectada", "medium") >>
    ELSE IF PostureRatioDen * posture_counts.head_down > PostureRatioNum * total
    THEN << Alert("depressive_posture", "Postura depresiva frecuente", "low") >>
    ELSE << >>

\* Variant of Alerts that evaluates the posture rule first.
AlertsPostureFirst(emotion_pcts, posture_counts, total) ==
    (IF PostureRatioDen * posture_counts.head_down > PostureRatioNum * total
        THEN << Alert("depressive_posture", "Postura depresiva frecuente", "low") >>
        ELSE << >>)
    \o (IF PctGt(PctGet(emotion_pcts, "sad"), SadThreshold)
        THEN << Alert("high_sadness", "Tristeza elevada detectada", "medium") >>
        ELSE << >>)
    \o (IF PctGt(PctGet(emotion_pcts, "fear"), FearThreshold)
        THEN << Alert("high_anxiety", "Ansiedad elevada detectada", "medium") >>
        ELSE << >>)
    \o (IF PctGt(PctGet(emotion_pcts, "angry"), AngryThreshold)
        THEN << Alert("high_anger", "Irritabilidad elevada detectada", "medium") >>
        ELSE << >>)

\* The alert list of calculate_metrics, in the order of its four if-statements.
Alerts(emotion_pcts, posture_counts, total) ==
    (IF PctGt(PctGet(emotion_pcts, "sad"), SadThreshold)
        THEN << Alert("high_sadness", "Tristeza elevada detectada", "medium") >>
        ELSE << >>)
    \o (IF PctGt(PctGet(emotion_pcts, "fear"), FearThreshold)
        THEN << Alert("high_anxiety", "Ansiedad elevada detectada", "medium") >>
        ELSE << >>)
    \o (IF PctGt(PctGet(emotion_pcts, "angry"), AngryThreshold)
        THEN << Alert("high_anger", "Irritabilidad elevada detectada", "medium") >>
        ELSE << >>)
    \o (IF PostureRatioDen * posture_counts.head_down > PostureRatioNum * total
        THEN << Alert("depressive_posture", "Postura depresiva frecuente", "low") >>
        ELSE << >>)

\* Variant of calculate_metrics without the early return for an empty
\* emotion history: the posture counts and alerts are computed all the same.
calculate_metrics_no_guard(eh, ph) ==
    LET total == Len(eh)
        emotion_pcts == [emo \in Range(eh) |-> Pct(Count(eh, emo), total)]
        posture_counts ==
            [ head_down |-> Cardinality({i \in DOMAIN ph : ph[i].head_down}),
              hunched |-> Cardinality({i \in DOMAIN ph : ph[i].hunched}),
              hands_on_face |->
                  Cardinality({i \in DOMAIN ph : ph[i].hands_on_face}) ]
    IN  [ total_frames |-> total,
          emotion_percentages |-> emotion_pcts,
          posture_counts |-> posture_counts,
          alerts |-> Alerts(emotion_pcts, posture_counts, total) ]

calculate_metrics(eh, ph) ==
    IF eh = << >>
    THEN EmptyMetrics
    ELSE
        LET total == Len(eh)
            emotion_pcts == [emo \in Range(eh) |-> Pct(Count(eh, emo), total)]
            posture_counts ==
                [ head_down |-> Cardinality({i \in DOMAIN ph : ph[i].head_down}),
                  hunched |-> Cardinality({i \in DOMAIN ph : ph[i].hunched}),
                  hands_on_face |->
                      Cardinality({i \in DOMAIN ph : ph[i].hands_on_face}) ]
        IN  [ total_frames |-> total,
              emotion_percentages |-> emotion_pcts,
              posture_counts |-> posture_counts,
              alerts |-> Alerts(emotion_pcts, posture_counts, total) ]

----------------------------------------------------------------------------
(* receive: the fold of one frame result into the histories *)

\* Variant of FoldEmotion that appends whatever the result carries.
FoldEmotionAlways(eh, result) == Append(eh, result.emotion)

\* if result['emotion']: self.emotion_history.append(result['emotion'])
FoldEmotion(eh, result) ==
    IF result.emotion # NoEmotion THEN Append(eh, result.emotion) ELSE eh

\* if any([head_down, hunched, hands_on_face]): self.posture_history.append({...})
FoldPosture(ph, result) ==
    IF result.head_down \/ result.hunched \/ result.hands_on_face
    THEN Append(ph, [ head_down |-> result.head_down,
                      hunched |-> result.hunched,
                      hands_on_face |-> result.hands_on_face ])
    ELSE ph

\* if len(self.emotion_history) % 10 == 0 and self.session:
ShouldFlush(eh, s) == Len(eh) % FlushEvery = 0 /\ HasSession(s)

----------------------------------------------------------------------------
(* save_records *)

\* The rows save_records writes for one frame result.
save_records(s, result) ==
    IF ~HasSession(s)
    THEN << >>
    ELSE
        (IF result.emotion # NoEmotion
            THEN << Db("emotion_record", [dominant_emotion |-> result.emotion]) >>
            ELSE << >>)
        \o (IF result.head_down \/ result.hunched \/ result.hands_on_face
            THEN << Db("posture_record",
                       [ head_down |-> result.head_down,
                         hunched_shoulders |-> result.hunched,
                         hands_on_face |-> result.hands_on_face ]) >>
            ELSE << >>)

----------------------------------------------------------------------------
(* finalize_session *)

\* Variant of FinalizedSession that calls a session with many angry frames stressed.
FinalizedSessionStressed(s, metrics) ==
    LET pcts == metrics.emotion_percentages
    IN  [ s EXCEPT
            !.ended = TRUE,
            !.happy_pct = PctGet(pcts, "happy"),
            !.sad_pct = PctGet(pcts, "sad"),
            !.angry_pct = PctGet(pcts, "angry"),
            !.fear_pct = PctGet(pcts, "fear"),
            !.surprise_pct = PctGet(pcts, "surprise"),
            !.disgust_pct = PctGet(pcts, "disgust"),
            !.neutral_pct = PctGet(pcts, "neutral"),
            !.head_down_count = metrics.posture_counts.head_down,
            !.hunched_count = metrics.posture_counts.hunched,
            !.hands_on_face_count = metrics.posture_counts.hands_on_face,
            !.overall_state =
                IF PctGt(PctGet(pcts, "sad"), SadThreshold) THEN "sad"
                ELSE IF PctGt(PctGet(pcts, "fear"), FearThreshold) THEN "anxious"
                ELSE IF PctGt(PctGet(pcts, "angry"), AngryThreshold) THEN "stressed"
                ELSE "stable" ]

\* Variant of FinalizedSession that tests the fear threshold before the sad one.
FinalizedSessionFearFirst(s, metrics) ==
    LET pcts == metrics.emotion_percentages
    IN  [ s EXCEPT
            !.ended = TRUE,
            !.happy_pct = PctGet(pcts, "happy"),
            !.sad_pct = PctGet(pcts, "sad"),
            !.angry_pct = PctGet(pcts, "angry"),
            !.fear_pct = PctGet(pcts, "fear"),
            !.surprise_pct = PctGet(pcts, "surprise"),
            !.disgust_pct = PctGet(pcts, "disgust"),
            !.neutral_pct = PctGet(pcts, "neutral"),
            !.head_down_count = metrics.posture_counts.head_down,
            !.hunched_count = metrics.posture_counts.hunched,
            !.hands_on_face_count = metrics.posture_counts.hands_on_face,
            !.overall_state =
                IF PctGt(PctGet(pcts, "fear"), FearThreshold) THEN "anxious"
                ELSE IF PctGt(PctGet(pcts, "sad"), SadThreshold) THEN "sad"
                ELSE "stable" ]

\* self.session after finalize_session has assigned the summary fields.
FinalizedSession(s, metrics) ==
    LET pcts == metrics.emotion_percentages
    IN  [ s EXCEPT
            !.ended = TRUE,
            !.happy_pct = PctGet(pcts, "happy"),
            !.sad_pct = PctGet(pcts, "sad"),
            !.angry_pct = PctGet(pcts, "angry"),
            !.fear_pct = PctGet(pcts, "fear"),
            !.surprise_pct = PctGet(pcts, "surprise"),
            !.disgust_pct = PctGet(pcts, "disgust"),
            !.neutral_pct = PctGet(pcts, "neutral"),
            !.head_down_count = metrics.posture_counts.head_down,
            !.hunched_count = metrics.posture_counts.hunched,
            !.hands_on_face_count = metrics.posture_counts.hands_on_face,
            !.overall_state =
                IF PctGt(PctGet(pcts, "sad"), SadThreshold) THEN "sad"
                ELSE IF PctGt(PctGet(pcts, "fear"), FearThreshold) THEN "anxious"
                ELSE "stable" ]

\* finalize_session: the session it leaves in self.session and the rows it
\* writes (session.save(), then one BehaviorAlert per alert of the metrics).
finalize_session(s, eh, ph) ==
    IF ~HasSession(s)
    THEN [session |-> s, writes |-> << >>]
    ELSE
        LET metrics == calculate_metrics(eh, ph)
            saved == FinalizedSession(s, metrics)
        IN  [ session |-> saved,
              writes |->
                  << Db("session_save", saved) >>
                  \o [i \in DOMAIN metrics.alerts |->
                         Db("alert", metrics.alerts[i])] ]

----------------------------------------------------------------------------
(* The lazy model getters: get_models and get_analysis_models *)

\* Calls of a getter one thread makes.
MaxGetterCalls == 2

\* The threads of the server process: the event loop, which runs the
\* consumers, and two request threads, which run the views.
Threads == {"loop", "req1", "req2"}

\* The module whose getter a thread calls.
GetterOf(t) == IF t = "loop" THEN "consumers" ELSE "views"

\* Module globals before any call (0 stands for None), with the number of
\* times the deepface package was imported and a YOLO model was constructed.
NoModels ==
    [ consumers |-> [deepface |-> 0, yolo |-> 0],
      views |-> [deepface |-> 0, yolo |-> 0],
      deepface_imports |-> 0,
      yolo_loads |-> 0 ]

IdleThreads == [t \in Threads |-> [pc |-> "idle", calls |-> 0, got |-> << 0, 0 >>]]

\* from deepface import DeepFace; <global> = DeepFace.  The import system
\* runs the package once per process and hands every importer the same object.
LoadDeepface(m, g) ==
    [ m EXCEPT ![g].deepface = 1,
               !.deepface_imports = IF @ = 0 THEN 1 ELSE @ ]

\* <global> = YOLO("yolov8n-pose.pt"): every construction is a new instance.
LoadYolo(m, g) ==
    [ m EXCEPT ![g].yolo = m.yolo_loads + 1,
               !.yolo_loads = @ + 1 ]

\* The globals after one uninterrupted call of the getter of module g.
get_models_run(m, g) ==
    LET m1 == IF m[g].deepface = 0 THEN LoadDeepface(m, g) ELSE m
    IN  IF m1[g].yolo = 0 THEN LoadYolo(m1, g) ELSE m1

\* A thread enters its getter.
GetterCall(t) ==
    /\ threads[t].pc = "idle"
    /\ threads[t].calls < MaxGetterCalls
    /\ threads' = [threads EXCEPT ![t].pc = "test_deepface", ![t].calls = @ + 1]
    /\ UNCHANGED <<conn, session, emotion_history, posture_history, log, budget, models,
                   instances, server>>

\* if <deepface global> is None
GetterTestDeepface(t) ==
    /\ threads[t].pc = "test_deepface"
    /\ threads' = [threads EXCEPT ![t].pc =
                       IF models[GetterOf(t)].deepface = 0
                       THEN "load_deepface" ELSE "test_yolo"]
    /\ UNCHANGED <<conn, session, emotion_history, posture_history, log, budget, models,
                   instances, server>>

GetterLoadDeepface(t) ==
    /\ threads[t].pc = "load_deepface"
    /\ models' = LoadDeepface(models, GetterOf(t))
    /\ threads' = [threads EXCEPT ![t].pc = "test_yolo"]
    /\ UNCHANGED <<conn, session, emotion_history, posture_history, log, budget,
                   instances, server>>

\* if <yolo global> is None
GetterTestYolo(t) ==
    /\ threads[t].pc = "test_yolo"
    /\ threads' = [threads EXCEPT ![t].pc =
                       IF models[GetterOf(t)].yolo = 0
                       THEN "load_yolo" ELSE "return"]
    /\ UNCHANGED <<conn, session, emotion_history, posture_history, log, budget, models,
                   instances, server>>

GetterLoadYolo(t) ==
    /\ threads[t].pc = "load_yolo"
    /\ models' = LoadYolo(models, GetterOf(t))
    /\ threads' = [threads EXCEPT ![t].pc = "return"]
    /\ UNCHANGED <<conn, session, emotion_history, posture_history, log, budget,
                   instances, server>>

\* return <deepface global>, <yolo global>
GetterReturn(t) ==
    /\ threads[t].pc = "return"
    /\ threads' = [threads EXCEPT
                       ![t].pc = "idle",
                       ![t].got = << models[GetterOf(t)].deepface,
                                     models[GetterOf(t)].yolo >>]
    /\ UNCHANGED <<conn, session, emotion_history, posture_history, log, budget, models,
                   instances, server>>

\* Messages the client of each concurrent connection may send.
MaxPeerMsgs == 2

\* The connections served at the same time by one process.
Consumers == {1, 2}

\* A consumer instance before connect(): its own attributes, the history of
\* what it received, sent and wrote, and where its handler stands.
NoInstances ==
    [ c \in Consumers |->
        [ conn |-> "new", session |-> NoSession, emotion_history |-> << >>,
          posture_history |-> << >>, log |-> << >>, budget |-> MaxPeerMsgs,
          pc |-> "idle" ] ]

\* The event loop runs no handler (loop = 0) and no AnalysisSession row exists.
IdleServer == [ loop |-> 0, rows |-> << >> ]

InitModels ==
    /\ conn = "new"
    /\ session = NoSession
    /\ emotion_history = << >>
    /\ posture_history = << >>
    /\ log = << >>
    /\ budget = 0
    /\ models = NoModels
    /\ threads = IdleThreads
    /\ instances = NoInstances
    /\ server = IdleServer

NextModels ==
    \/ \E t \in Threads : GetterCall(t)
    \/ \E t \in Threads : GetterTestDeepface(t)
    \/ \E t \in Threads : GetterLoadDeepface(t)
    \/ \E t \in Threads : GetterTestYolo(t)
    \/ \E t \in Threads : GetterLoadYolo(t)
    \/ \E t \in Threads : GetterReturn(t)

SpecModels == InitModels /\ [][NextModels]_vars

----------------------------------------------------------------------------
(* Handlers *)

CanReceive == conn = "open" /\ budget > 0

ErrorMsg == [type |-> "error"]

Init ==
    /\ conn = "new"
    /\ session = NoSession
    /\ emotion_history = << >>
    /\ posture_history = << >>
    /\ log = << >>
    /\ budget = MaxMsgs
    /\ models = NoModels
    /\ threads = IdleThreads
    /\ instances = NoInstances
    /\ server = IdleServer

\* connect(): the attributes are reset, the transport is accepted and, when
\* the route carries a person_id, a session is created and announced.
Connect(person) ==
    /\ conn = "new"
    /\ conn' = "open"
    /\ budget' = budget
    /\ UNCHANGED <<models, threads, instances, server>>
    /\ emotion_history' = << >>
    /\ posture_history' = << >>
    /\ \/ /\ person = "absent"
          /\ session' = NoSession
          /\ log' = log
       \/ /\ person = "unknown"
          /\ session' = NoSession
          /\ log' = log \o << Send([type |-> "session_started", session_id |-> 0]) >>
       \/ /\ person = "known"
          /\ session' = NewSession
          /\ log' = log \o << Db("session_create", NewSession),
                              Send([type |-> "session_started",
                                    session_id |-> NewSession.id]) >>

\* receive() of {type: "frame", image: ...} whose image does not decode:
\* an exception reaches the handler's except clause ("raise"), or imdecode
\* returns None and the `if frame is not None` block is skipped ("null").
ReceiveBadFrame(decoded) ==
    /\ CanReceive
    /\ \/ /\ decoded = "raise"
          /\ log' = log \o << Recv("frame", "raise"), Send(ErrorMsg) >>
       \/ /\ decoded = "null"
          /\ log' = log \o << Recv("frame", "null") >>
    /\ budget' = budget - 1
    /\ UNCHANGED <<conn, session, emotion_history, posture_history, models, threads,
                   instances, server>>

\* Variant of ReceiveFrame that folds the result only after save_records has
\* returned: a failed flush loses the frame.
ReceiveFrameFoldAfterSave(emotion, posture, dbOk) ==
    /\ CanReceive
    /\ LET result == analyze_frame(emotion, posture)
           eh == FoldEmotion(emotion_history, result)
           ph == FoldPosture(posture_history, result)
           head == log \o << Recv("frame", "raster"), Analyzed(result) >>
       IN  /\ dbOk \/ ShouldFlush(eh, session)
           /\ emotion_history' = IF dbOk THEN eh ELSE emotion_history
           /\ posture_history' = IF dbOk THEN ph ELSE posture_history
           /\ log' =
                IF ShouldFlush(eh, session)
                THEN IF dbOk
                     THEN head \o << SaveCall(TRUE) >>
                               \o save_records(session, result)
                               \o << Send([type |-> "analysis_result",
                                           result |-> result]) >>
                     ELSE head \o << SaveCall(FALSE), Send(ErrorMsg) >>
                ELSE head \o << Send([type |-> "analysis_result",
                                      result |-> result]) >>
    /\ budget' = budget - 1
    /\ models' = get_models_run(models, "consumers")
    /\ UNCHANGED <<conn, session, threads, instances, server>>

\* receive() of {type: "frame", image: ...} whose image decodes to a raster.
\* dbOk tells whether the writes of save_records succeed when it is called.
ReceiveFrame(emotion, posture, dbOk) ==
    /\ CanReceive
    /\ LET result == analyze_frame(emotion, posture)
           eh == FoldEmotion(emotion_history, result)
           ph == FoldPosture(posture_history, result)
           head == log \o << Recv("frame", "raster"), Analyzed(result) >>
       IN  /\ dbOk \/ ShouldFlush(eh, session)
           /\ emotion_history' = eh
           /\ posture_history' = ph
           /\ log' =
                IF ShouldFlush(eh, session)
                THEN IF dbOk
                     THEN head \o << SaveCall(TRUE) >>
                               \o save_records(session, result)
                               \o << Send([type |-> "analysis_result",
                                           result |-> result]) >>
                     ELSE head \o << SaveCall(FALSE), Send(ErrorMsg) >>
                ELSE head \o << Send([type |-> "analysis_result",
                                      result |-> result]) >>
    /\ budget' = budget - 1
    /\ models' = get_models_run(models, "consumers")
    /\ UNCHANGED <<conn, session, threads, instances, server>>

\* Variant of ReceiveGetMetrics that consumes the histories it reports.
ReceiveGetMetricsAndReset ==
    /\ CanReceive
    /\ log' = log \o << Recv("get_metrics", "-"),
                        Send([ type |-> "metrics",
                               metrics |-> calculate_metrics(emotion_history,
                                                             posture_history) ]) >>
    /\ budget' = budget - 1
    /\ emotion_history' = << >>
    /\ posture_history' = << >>
    /\ UNCHANGED <<conn, session, models, threads, instances, server>>

\* receive() of {type: "get_metrics"}.
ReceiveGetMetrics ==
    /\ CanReceive
    /\ log' = log \o << Recv("get_metrics", "-"),
                        Send([ type |-> "metrics",
                               metrics |-> calculate_metrics(emotion_history,
                                                             posture_history) ]) >>
    /\ budget' = budget - 1
    /\ UNCHANGED <<conn, session, emotion_history, posture_history, models, threads,
                   instances, server>>

\* receive() of {type: "stop"}: finalize_session, session_ended, close.
ReceiveStop ==
    /\ CanReceive
    /\ LET fin == finalize_session(session, emotion_history, posture_history)
       IN  /\ session' = fin.session
           /\ log' = log \o << Recv("stop", "-") >> \o fin.writes
                         \o << Send([ type |-> "session_ended",
                                      metrics |-> calculate_metrics(emotion_history,
                                                                    posture_history) ]),
                               Closed >>
    /\ conn' = "closing"
    /\ budget' = budget - 1
    /\ UNCHANGED <<emotion_history, posture_history, models, threads, instances, server>>

\* Variant of ReceiveOther that answers the unknown type with an error.
ReceiveOtherAnswered ==
    /\ CanReceive
    /\ log' = log \o << Recv("other", "-"), Send(ErrorMsg) >>
    /\ budget' = budget - 1
    /\ UNCHANGED <<conn, session, emotion_history, posture_history, models, threads,
                   instances, server>>

\* receive() of a well-formed message of any other type: no branch is taken.
ReceiveOther ==
    /\ CanReceive
    /\ log' = log \o << Recv("other", "-") >>
    /\ budget' = budget - 1
    /\ UNCHANGED <<conn, session, emotion_history, posture_history, models, threads,
                   instances, server>>

\* disconnect(): the client dropped the connection, or the transport has
\* been closed by close() and the server delivers websocket.disconnect.
Disconnect ==
    /\ conn \in {"open", "closing"}
    /\ LET fin == IF HasSession(session)
                  THEN finalize_session(session, emotion_history, posture_history)
                  ELSE [session |-> session, writes |-> << >>]
       IN  /\ session' = fin.session
           /\ log' = log \o << Dropped >> \o fin.writes
    /\ conn' = "closed"
    /\ UNCHANGED <<emotion_history, posture_history, budget, models, threads,
                   instances, server>>

Next ==
    \/ \E person \in PersonCases : Connect(person)
    \/ \E decoded \in DecodeFailures : ReceiveBadFrame(decoded)
    \/ \E emotion \in FrameEmotions \cup {NoEmotion}, posture \in FramePostures,
          dbOk \in BOOLEAN :
           ReceiveFrame(emotion, posture, dbOk)
    \/ ReceiveGetMetrics
    \/ ReceiveStop
    \/ ReceiveOther
    \/ Disconnect

Spec == Init /\ [][Next]_vars

----------------------------------------------------------------------------
(* A session that is one frame short of its first periodic flush *)

\* The history of a connection for a known person on which n frames, each
\* with emotion sad and no posture flag, were analysed.  None of them is
\* flushed: the emotion history has length 1 .. n < FlushEvery after each.
SadFrame == analyze_frame("sad", <<FALSE, FALSE, FALSE>>)

RECURSIVE SadRun(_)
SadRun(n) ==
    IF n = 0
    THEN << Db("session_create", NewSession),
            Send([type |-> "session_started", session_id |-> NewSession.id]) >>
    ELSE SadRun(n - 1) \o << Recv("frame", "raster"), Analyzed(SadFrame),
                              Send([type |-> "analysis_result",
                                    result |-> SadFrame]) >>

InitMid ==
    /\ conn = "open"
    /\ session = NewSession
    /\ emotion_history = [i \in 1 .. FlushEvery - 1 |-> "sad"]
    /\ posture_history = << >>
    /\ log = SadRun(FlushEvery - 1)
    /\ budget = MaxMsgs
    /\ models = get_models_run(NoModels, "consumers")
    /\ threads = IdleThreads
    /\ instances = NoInstances
    /\ server = IdleServer

NextMid ==
    \/ \E decoded \in DecodeFailures : ReceiveBadFrame(decoded)
    \/ \E emotion \in FrameEmotions \cup {NoEmotion}, posture \in FramePostures,
          dbOk \in BOOLEAN :
           ReceiveFrame(emotion, posture, dbOk)
    \/ ReceiveGetMetrics
    \/ ReceiveStop
    \/ ReceiveOther
    \/ Disconnect

SpecMid == InitMid /\ [][NextMid]_vars

----------------------------------------------------------------------------
(* Sessions with an accumulated history: the aggregation and alert rules *)

\* Frames folded into a session before the model starts to watch it.
MaxAggFrames == 11

\* The categories whose counts a watched session is drawn from: the three
\* that have an alert rule and one that has none.
AggEmotions == << "sad", "fear", "angry", "happy" >>

RECURSIVE Repeat(_, _)
Repeat(x, n) == IF n = 0 THEN << >> ELSE << x >> \o Repeat(x, n - 1)

Reverse(s) == [i \in DOMAIN s |-> s[Len(s) + 1 - i]]

\* The frames of a session: counts[k] frames of category AggEmotions[k], in
\* table order or (reversed) in the opposite order, the first headDown of
\* them with head_down set, preceded by `blind` frames that have no emotion
\* but head_down set.  A frame is <<emotion, posture flags>>.
AggFrames(counts, headDown, blind, reversed) ==
    LET labels == Repeat(AggEmotions[1], counts[1]) \o Repeat(AggEmotions[2], counts[2])
                  \o Repeat(AggEmotions[3], counts[3]) \o Repeat(AggEmotions[4], counts[4])
        ordered == IF reversed THEN Reverse(labels) ELSE labels
    IN  Repeat(<< NoEmotion, << TRUE, FALSE, FALSE >> >>, blind)
        \o [i \in DOMAIN ordered |->
               << ordered[i], << i <= headDown, FALSE, FALSE >> >>]

\* The attributes and the history that receive() leaves after a connection
\* for a known person got the given frames, every database write succeeding.
RECURSIVE AfterFrames(_)
AfterFrames(frames) ==
    IF frames = << >>
    THEN [ eh |-> << >>, ph |-> << >>, log |-> SadRun(0) ]
    ELSE
        LET before == AfterFrames(SubSeq(frames, 1, Len(frames) - 1))
            frame == frames[Len(frames)]
            result == analyze_frame(frame[1], frame[2])
            eh == FoldEmotion(before.eh, result)
            ph == FoldPosture(before.ph, result)
        IN  [ eh |-> eh,
              ph |-> ph,
              log |-> before.log
                      \o << Recv("frame", "raster"), Analyzed(result) >>
                      \o (IF ShouldFlush(eh, NewSession)
                          THEN << SaveCall(TRUE) >> \o save_records(NewSession, result)
                          ELSE << >>)
                      \o << Send([type |-> "analysis_result", result |-> result]) >> ]

InitAgg ==
    \E counts \in [1 .. 4 -> 0 .. MaxAggFrames], blind \in 0 .. 1,
       reversed \in BOOLEAN :
        LET total == counts[1] + counts[2] + counts[3] + counts[4]
        IN  /\ total <= MaxAggFrames
            /\ blind = 0 \/ ~reversed
            /\ \E headDown \in 0 .. total :
                  LET st == AfterFrames(AggFrames(counts, headDown, blind, reversed))
                  IN  /\ conn = "open"
                      /\ session = NewSession
                      /\ emotion_history = st.eh
                      /\ posture_history = st.ph
                      /\ log = st.log
                      /\ budget = 1
                      /\ models = IF total + blind = 0 THEN NoModels
                                  ELSE get_models_run(NoModels, "consumers")
                      /\ threads = IdleThreads
                      /\ instances = NoInstances
                      /\ server = IdleServer

NextAgg ==
    \/ ReceiveGetMetrics
    \/ ReceiveStop
    \/ Disconnect

SpecAgg == InitAgg /\ [][NextAgg]_vars

----------------------------------------------------------------------------
(* The analysis steps and their faults: streaming, single image, CLI loop *)

\* None, for the fields of a result other than the emotion.
Absent == "none"

\* What DeepFace.analyze hands back: an analysis with a dominant emotion and
\* its scores, an exception, or an analysis that has a dominant emotion but
\* no scores to convert.
ClassifierOutcomes ==
    { [fault |-> "none", emotion |-> e] : e \in Emotions }
    \cup { [fault |-> "analyze", emotion |-> NoEmotion] }
    \cup { [fault |-> "scores", emotion |-> e] : e \in Emotions }

\* What the pose step finds: the three flags, or an exception of the model.
PoseOutcomes ==
    { [fault |-> FALSE, flags |-> << a, b, c >>] : a \in BOOLEAN, b \in BOOLEAN, c \in BOOLEAN }
    \cup { [fault |-> TRUE, flags |-> << FALSE, FALSE, FALSE >>] }

\* Outcome of a call that either returns or raises.
StepOutcomes == {"ok", "raise"}

\* History entries: a call of a model or library function, an exception
\* leaving a function, and the outcomes the environment had for one request.
Invoke(fn) == [k |-> "invoke", fn |-> fn]

Raised(fn) == [k |-> "raise", fn |-> fn]

Env(emptyBuf, load, resize, cls, pose) ==
    [ k |-> "env", emptyBuf |-> emptyBuf, load |-> load, resize |-> resize,
      cls |-> cls, pose |-> pose ]

\* The emotion fields the first try block of analyze_frame leaves in result:
\* the dominant emotion is stored before the scores are converted.
emotion_step(cls) ==
    [ emotion |-> IF cls.fault = "analyze" THEN NoEmotion ELSE cls.emotion,
      emotion_scores |-> IF cls.fault = "none" THEN Emotions ELSE {} ]

\* analyze_frame with the outcome of each of its steps: get_models and the
\* resize are outside the try blocks, the emotion and pose steps inside.
analyze_frame_steps(load, resize, cls, pose) ==
    IF load = "raise"
    THEN [ raised |-> TRUE, calls |-> << Invoke("get_models") >> ]
    ELSE IF resize = "raise"
    THEN [ raised |-> TRUE, calls |-> << Invoke("get_models"), Invoke("resize") >> ]
    ELSE
        LET emo == emotion_step(cls)
        IN  [ raised |-> FALSE,
              calls |-> << Invoke("get_models"), Invoke("resize"),
                           Invoke("DeepFace.analyze"), Invoke("pose_model") >>,
              result |-> analyze_frame(emo.emotion, pose.flags)
                         @@ [ emotion_scores |-> emo.emotion_scores,
                              timestamp |-> "now" ] ]

\* receive() of a frame message whose image decodes to a raster, with the
\* outcome of every step of analyze_frame; the database writes succeed.
ReceiveFrameSteps(load, resize, cls, pose) ==
    /\ CanReceive
    /\ LET run == analyze_frame_steps(load, resize, cls, pose)
           head == log \o << Recv("frame", "raster"),
                             Env("-", load, resize, cls, pose) >> \o run.calls
       IN  IF run.raised
           THEN /\ log' = head \o << Raised("analyze_frame"), Send(ErrorMsg) >>
                /\ UNCHANGED <<emotion_history, posture_history>>
           ELSE
               LET result == run.result
                   eh == FoldEmotion(emotion_history, result)
                   ph == FoldPosture(posture_history, result)
               IN  /\ emotion_history' = eh
                   /\ posture_history' = ph
                   /\ log' = head \o << Analyzed(result) >>
                             \o (IF ShouldFlush(eh, session)
                                 THEN << SaveCall(TRUE) >> \o save_records(session, result)
                                 ELSE << >>)
                             \o << Send([type |-> "analysis_result", result |-> result]) >>
    /\ budget' = budget - 1
    /\ models' = IF load = "raise" THEN models
               ELSE get_models_run(models, "consumers")
    /\ UNCHANGED <<conn, session, threads, instances, server>>

\* The image field of a request body, as its comma-separated parts; no parts
\* when the field is missing.
NoImage == << >>

DataPrefix == "data:image/jpeg;base64"

ImagePayloads == {"", "valid", "bad_base64", "not_image"}

ImageInputs ==
    {NoImage}
    \cup { << part >> : part \in ImagePayloads \cup {DataPrefix} }
    \cup { << DataPrefix, payload >> : payload \in ImagePayloads }

HttpRequest(image) == [k |-> "http_request", image |-> image]

HttpResponse(response) == [k |-> "http_response", response |-> response]

\* Variant of image_payload that decodes the field as it was sent.
image_payload_unstripped(image) == image[1]

\* The text handed to b64decode: what follows the first comma when there is one.
image_payload(image) == IF Len(image) > 1 THEN image[2] ELSE image[1]

\* b64decode then imdecode: a raster, an exception, or None.  Decoding an
\* empty buffer raises or gives None, as emptyBuf says.
decode_image(payload, emptyBuf) ==
    CASE payload = "valid" -> "raster"
      [] payload = "bad_base64" -> "raise"
      [] payload = "not_image" -> "null"
      [] payload = "" -> emptyBuf
      [] payload = DataPrefix -> "null"

\* Variant of image_emotion_step that swallows the exception.
image_emotion_step_silent(cls) ==
    IF cls.fault = "analyze"
    THEN [ emotion |-> NoEmotion, emotion_scores |-> {},
           age |-> Absent, gender |-> Absent ]
    ELSE [ emotion |-> cls.emotion,
           emotion_scores |-> IF cls.fault = "none" THEN Emotions ELSE {},
           age |-> "estimated", gender |-> "estimated" ]

\* The fields the emotion try block of analyze_image leaves in result.
image_emotion_step(cls) ==
    IF cls.fault = "analyze"
    THEN [ emotion |-> NoEmotion, emotion_scores |-> {},
           age |-> Absent, gender |-> Absent, emotion_error |-> "exception" ]
    ELSE [ emotion |-> cls.emotion,
           emotion_scores |-> IF cls.fault = "none" THEN Emotions ELSE {},
           age |-> "estimated", gender |-> "estimated" ]

\* The fields the pose try block of analyze_image leaves in result.
image_pose_step(pose) ==
    IF pose.fault
    THEN [ head_down |-> FALSE, hunched |-> FALSE, hands_on_face |-> FALSE,
           posture_error |-> "exception" ]
    ELSE [ head_down |-> pose.flags[1], hunched |-> pose.flags[2],
           hands_on_face |-> pose.flags[3] ]

\* overall_state as analyze_image derives it.
image_overall_state(emotion, head_down, hunched, hands_on_face) ==
    IF emotion \in {"sad", "fear", "angry"}
    THEN (IF head_down \/ hunched THEN "anxious" ELSE "stressed")
    ELSE IF hands_on_face THEN "nervous"
    ELSE "normal"

\* analyze_image: the calls it makes and the response it returns.
analyze_image(image, emptyBuf, load, resize, cls, pose) ==
    IF image = NoImage \/ image = << "" >>
    THEN [ calls |-> << >>, response |-> [status |-> 400, error |-> "required"] ]
    ELSE
        LET frame == decode_image(image_payload(image), emptyBuf)
        IN  IF frame = "null"
            THEN [ calls |-> << >>, response |-> [status |-> 400, error |-> "undecodable"] ]
            ELSE IF frame = "raise"
            THEN [ calls |-> << >>, response |-> [status |-> 400, error |-> "decode exception"] ]
            ELSE IF load = "raise"
            THEN [ calls |-> << Invoke("get_analysis_models") >>,
                   response |-> [status |-> 500, success |-> FALSE, error |-> "exception"] ]
            ELSE IF resize = "raise"
            THEN [ calls |-> << Invoke("get_analysis_models"), Invoke("resize") >>,
                   response |-> [status |-> 500, success |-> FALSE, error |-> "exception"] ]
            ELSE
                LET emo == image_emotion_step(cls)
                    pos == image_pose_step(pose)
                    result == emo @@ pos
                              @@ [ overall_state |->
                                       image_overall_state(emo.emotion, pos.head_down,
                                                           pos.hunched, pos.hands_on_face),
                                   timestamp |-> "now" ]
                IN  [ calls |-> << Invoke("get_analysis_models"), Invoke("resize"),
                                   Invoke("DeepFace.analyze"), Invoke("pose_model") >>,
                      response |-> [status |-> 200, success |-> TRUE, analysis |-> result] ]

\* POST api/analyze/ with the given image field.
AnalyzeImage(image, emptyBuf, load, resize, cls, pose) ==
    /\ budget > 0
    /\ LET run == analyze_image(image, emptyBuf, load, resize, cls, pose)
       IN  log' = log \o << HttpRequest(image), Env(emptyBuf, load, resize, cls, pose) >>
                      \o run.calls \o << HttpResponse(run.response) >>
    /\ budget' = budget - 1
    /\ models' =
          IF analyze_image(image, emptyBuf, load, resize, cls, pose).calls # << >>
             /\ load = "ok"
          THEN get_models_run(models, "views")
          ELSE models
    /\ UNCHANGED <<conn, session, emotion_history, posture_history, threads,
                   instances, server>>

\* estado of one iteration of the CLI loop: the hands_on_face test is an if
\* of its own after the emotion test.
cli_estado(emotion, posture_flag, hunched, hands_on_face) ==
    LET by_emotion ==
            IF emotion \in {"sad", "fear", "angry"}
            THEN (IF posture_flag \/ hunched
                  THEN [text |-> "Posible tristeza/ansiedad", emotion |-> "-"]
                  ELSE [text |-> "Emocion:", emotion |-> emotion])
            ELSE [text |-> "Normal", emotion |-> "-"]
    IN  IF hands_on_face
        THEN [text |-> "Nerviosismo detectado", emotion |-> "-"]
        ELSE by_emotion

CliShown(emotion, flags, estado) ==
    [ k |-> "cli", emotion |-> emotion, posture_flag |-> flags[1],
      hunched |-> flags[2], hands_on_face |-> flags[3], estado |-> estado ]

\* One iteration of the CLI loop on a frame read from the camera.  The
\* emotion step is in a try block (any fault gives emotion None); the pose
\* model is called outside any try, so its exception ends the program.
CliFrame(cls, pose) ==
    /\ budget > 0
    /\ LET emotion == IF cls.fault = "none" THEN cls.emotion ELSE NoEmotion
           head == log \o << Env("-", "ok", "ok", cls, pose),
                             Invoke("DeepFace.analyze"), Invoke("pose_model") >>
       IN  IF pose.fault
           THEN /\ log' = head \o << Raised("main") >>
                /\ budget' = 0
           ELSE /\ log' = head \o << CliShown(emotion, pose.flags,
                                              cli_estado(emotion, pose.flags[1],
                                                         pose.flags[2], pose.flags[3])) >>
                /\ budget' = budget - 1
    /\ UNCHANGED <<conn, session, emotion_history, posture_history, models, threads,
                   instances, server>>

InitAnalyze ==
    /\ conn = "open"
    /\ session = NewSession
    /\ emotion_history = << >>
    /\ posture_history = << >>
    /\ log = SadRun(0)
    /\ budget = 1
    /\ models = NoModels
    /\ threads = IdleThreads
    /\ instances = NoInstances
    /\ server = IdleServer

NextAnalyze ==
    \/ \E load \in StepOutcomes, resize \in StepOutcomes,
          cls \in ClassifierOutcomes, pose \in PoseOutcomes :
          ReceiveFrameSteps(load, resize, cls, pose)
    \/ \E image \in ImageInputs, emptyBuf \in DecodeFailures,
          load \in StepOutcomes, resize \in StepOutcomes,
          cls \in ClassifierOutcomes, pose \in PoseOutcomes :
          AnalyzeImage(image, emptyBuf, load, resize, cls, pose)
    \/ \E cls \in ClassifierOutcomes, pose \in PoseOutcomes : CliFrame(cls, pose)

SpecAnalyze == InitAnalyze /\ [][NextAnalyze]_vars

----------------------------------------------------------------------------
(* The CLI loop and its end-of-run report *)

\* Frames the CLI loop reads before it ends.
MaxCliFrames == 4

\* p < threshold
PctLt(p, threshold) == p.n < threshold * p.d

\* The module-level emotion_history of the script: one entry per shown frame
\* whose emotion step succeeded.
cli_emotion_history ==
    LET shown == SelectSeq(log, LAMBDA e : e.k = "cli" /\ e.emotion # NoEmotion)
    IN  [i \in DOMAIN shown |-> shown[i].emotion]

CliReport(lines) == [k |-> "cli_report", lines |-> lines]

\* The verdict lines of the behaviour report printed after the loop; nothing
\* is printed for an empty history.
cli_report(history) ==
    IF history = << >>
    THEN << >>
    ELSE
        LET total == Len(history)
            sad_pct == Pct(Count(history, "sad"), total)
            fear_pct == Pct(Count(history, "fear"), total)
            angry_pct == Pct(Count(history, "angry"), total)
        IN  (IF PctGt(sad_pct, SadThreshold) THEN << "Tristeza elevada" >> ELSE << >>)
            \o (IF PctGt(fear_pct, FearThreshold) THEN << "Miedo/ansiedad elevada" >> ELSE << >>)
            \o (IF PctGt(angry_pct, AngryThreshold) THEN << "Irritabilidad elevada" >> ELSE << >>)
            \o (IF PctLt(sad_pct, SadThreshold) /\ PctLt(fear_pct, FearThreshold)
                   /\ PctLt(angry_pct, AngryThreshold)
                THEN << "Estado emocional estable" >> ELSE << >>)

\* The loop ends (no frame could be read, or q was pressed) and the report
\* is printed.
CliQuit ==
    /\ \A e \in Range(log) : e.k # "cli_report" /\ e # Raised("main")
    /\ log' = log \o << CliReport(cli_report(cli_emotion_history)) >>
    /\ budget' = 0
    /\ UNCHANGED <<conn, session, emotion_history, posture_history, models, threads,
                   instances, server>>

\* What the camera frames of a run show: one of the three categories with a
\* warning, one without, or a frame the classifier fails on; the pose model
\* finds nothing or fails.
CliClassifierOutcomes ==
    { [fault |-> "none", emotion |-> e] : e \in {"sad", "fear", "angry", "happy"} }
    \cup { [fault |-> "analyze", emotion |-> NoEmotion] }

CliPoseOutcomes ==
    { [fault |-> FALSE, flags |-> << FALSE, FALSE, FALSE >>],
      [fault |-> TRUE, flags |-> << FALSE, FALSE, FALSE >>] }

InitCli ==
    /\ conn = "new"
    /\ session = NoSession
    /\ emotion_history = << >>
    /\ posture_history = << >>
    /\ log = << >>
    /\ budget = MaxCliFrames
    /\ models = NoModels
    /\ threads = IdleThreads
    /\ instances = NoInstances
    /\ server = IdleServer

NextCli ==
    \/ \E cls \in CliClassifierOutcomes, pose \in CliPoseOutcomes :
          CliFrame(cls, pose)
    \/ CliQuit

SpecCli == InitCli /\ [][NextCli]_vars

----------------------------------------------------------------------------
(* The posture heuristics of the pose step *)

\* dist < 100
HandsDistance == 100

\* shoulder_distance < frame.shape[1] * 0.15, as 100 * distance < 15 * width
HunchedNum == 15

HunchedDen == 100

\* Frame widths, in pixels.
FrameWidths == {320, 640}

\* Pixel positions <<x, y>> the pose model reports for each keypoint; <<0, 0>>
\* is what it reports for a keypoint it did not detect.
NosePoints == { << 0, 0 >>, << 0, 101 >>, << 300, 100 >>, << 300, 101 >> }

LeftShoulderPoints == { << 0, 0 >>, << 0, 100 >>, << 200, 100 >> }

RightShoulderPoints == { << 0, 0 >>, << 295, 100 >>, << 296, 101 >>, << 297, 100 >> }

LeftWristPoints == { << 0, 0 >>, << 360, 180 >>, << 359, 180 >> }

RightWristPoints == { << 0, 0 >>, << 0, 100 >> }

Person(nose, left_shoulder, right_shoulder, left_wrist, right_wrist) ==
    [ nose |-> nose, left_shoulder |-> left_shoulder,
      right_shoulder |-> right_shoulder, left_wrist |-> left_wrist,
      right_wrist |-> right_wrist ]

Persons ==
    { Person(n, ls, rs, lw, rw) :
        n \in NosePoints, ls \in LeftShoulderPoints, rs \in RightShoulderPoints,
        lw \in LeftWristPoints, rw \in RightWristPoints }

\* Other people in the picture: one with no keypoint detected, one upright
\* with a hand at the face, one with the head down and narrow shoulders.
Bystanders ==
    { Person(<< 0, 0 >>, << 0, 0 >>, << 0, 0 >>, << 0, 0 >>, << 0, 0 >>),
      Person(<< 500, 100 >>, << 400, 200 >>, << 600, 200 >>, << 510, 110 >>, << 0, 0 >>),
      Person(<< 500, 300 >>, << 490, 200 >>, << 510, 200 >>, << 0, 0 >>, << 0, 0 >>) }

\* The keypoints of a frame: one person, or that person with a bystander
\* listed before or after.
KeypointInputs ==
    { << q >> : q \in Persons }
    \cup { << q, b >> : q \in Persons, b \in Bystanders }
    \cup { << b, q >> : q \in Persons, b \in Bystanders }

Abs(n) == IF n < 0 THEN -n ELSE n

\* point[0] > 0: the test the pose step makes before it uses a keypoint.
kp_detected(point) == point[1] > 0

\* np.sqrt(dx**2 + dy**2) < 100, squared.
near_nose(wrist, nose) ==
    (wrist[1] - nose[1]) * (wrist[1] - nose[1])
    + (wrist[2] - nose[2]) * (wrist[2] - nose[2]) < HandsDistance * HandsDistance

\* The flags one iteration of the person loop sets to True.
person_flags(q, width) ==
    LET guarded == kp_detected(q.nose) /\ kp_detected(q.left_shoulder)
                   /\ kp_detected(q.right_shoulder)
    IN  << guarded /\ 2 * q.nose[2] > q.left_shoulder[2] + q.right_shoulder[2],
           guarded /\ HunchedDen * Abs(q.left_shoulder[1] - q.right_shoulder[1])
                          < HunchedNum * width,
           \/ kp_detected(q.left_wrist) /\ kp_detected(q.nose)
                 /\ near_nose(q.left_wrist, q.nose)
           \/ kp_detected(q.right_wrist) /\ kp_detected(q.nose)
                 /\ near_nose(q.right_wrist, q.nose) >>

\* The flags after the loop over all persons: a flag is only ever set.
RECURSIVE pose_flags(_, _)
pose_flags(persons, width) ==
    IF persons = << >>
    THEN << FALSE, FALSE, FALSE >>
    ELSE
        LET before == pose_flags(SubSeq(persons, 1, Len(persons) - 1), width)
            now == person_flags(persons[Len(persons)], width)
        IN  << before[1] \/ now[1], before[2] \/ now[2], before[3] \/ now[3] >>

Keypoints(persons, width) == [k |-> "keypoints", persons |-> persons, width |-> width]

\* receive() of a frame message whose image decodes to a raster of the given
\* width, in which the classifier sees `emotion` and the pose model the
\* given persons; the database writes succeed.
ReceiveFrameKeypoints(emotion, persons, width) ==
    /\ CanReceive
    /\ LET result == analyze_frame(emotion, pose_flags(persons, width))
           eh == FoldEmotion(emotion_history, result)
           ph == FoldPosture(posture_history, result)
       IN  /\ emotion_history' = eh
           /\ posture_history' = ph
           /\ log' = log \o << Recv("frame", "raster"), Keypoints(persons, width),
                               Analyzed(result) >>
                         \o (IF ShouldFlush(eh, session)
                             THEN << SaveCall(TRUE) >> \o save_records(session, result)
                             ELSE << >>)
                         \o << Send([type |-> "analysis_result", result |-> result]) >>
    /\ models' = get_models_run(models, "consumers")
    /\ budget' = budget - 1
    /\ UNCHANGED <<conn, session, threads, instances, server>>

NextPose ==
    \/ \E emotion \in FrameEmotions, persons \in KeypointInputs, width \in FrameWidths :
          ReceiveFrameKeypoints(emotion, persons, width)

SpecPose == InitAnalyze /\ [][NextPose]_vars

----------------------------------------------------------------------------
(* Several connections served by one event loop *)

\* What the frames of the concurrent connections show.
PeerFrames ==
    { << "sad", << TRUE, FALSE, FALSE >> >>, << "happy", << FALSE, FALSE, FALSE >> >> }

\* The handlers of all consumers are coroutines of one event loop: a handler
\* starts only when no other handler is running between two of its awaits.
LoopFree == server.loop = 0

PeerCanReceive(c) ==
    /\ LoopFree
    /\ instances[c].conn = "open"
    /\ instances[c].budget > 0
    /\ instances[c].pc = "idle"

\* The session table after the row of session s was saved.
SavedRows(rows, s) == IF HasSession(s) THEN [rows EXCEPT ![s.id] = s] ELSE rows

\* finalize_session as disconnect() and the stop branch call it.
PeerFinalize(c) ==
    IF HasSession(instances[c].session)
    THEN finalize_session(instances[c].session, instances[c].emotion_history,
                          instances[c].posture_history)
    ELSE [session |-> instances[c].session, writes |-> << >>]

\* connect() of consumer c for an existing person: the row gets the next id.
PeerConnect(c) ==
    /\ LoopFree
    /\ instances[c].conn = "new"
    /\ LET created == [NewSession EXCEPT !.id = Len(server.rows) + 1]
       IN  /\ instances' =
                 [instances EXCEPT
                    ![c].conn = "open",
                    ![c].session = created,
                    ![c].emotion_history = << >>,
                    ![c].posture_history = << >>,
                    ![c].log = @ \o << Db("session_create", created),
                                       Send([type |-> "session_started",
                                             session_id |-> created.id]) >>]
           /\ server' = [server EXCEPT !.rows = Append(@, created)]
    /\ UNCHANGED <<conn, session, emotion_history, posture_history, log, budget,
                   models, threads>>

\* receive() of a frame by consumer c, up to the model calls: analyze_frame
\* calls DeepFace.analyze and pose_model directly, without an await or an
\* executor, so the handler keeps the event loop while they run.
PeerBeginFrame(c) ==
    /\ PeerCanReceive(c)
    /\ instances' = [instances EXCEPT
                        ![c].pc = "inference",
                        ![c].budget = @ - 1,
                        ![c].log = @ \o << Recv("frame", "raster") >>]
    /\ server' = [server EXCEPT !.loop = c]
    /\ models' = get_models_run(models, "consumers")
    /\ UNCHANGED <<conn, session, emotion_history, posture_history, log, budget,
                   threads>>

\* Variant of PeerEndInference in which the histories are shared by all
\* consumer instances.
PeerEndInferenceShared(c, frame) ==
    /\ server.loop = c
    /\ instances[c].pc = "inference"
    /\ LET result == analyze_frame(frame[1], frame[2])
       IN  instances' =
               [d \in Consumers |->
                   [instances[d] EXCEPT
                      !.emotion_history = FoldEmotion(@, result),
                      !.posture_history = FoldPosture(@, result),
                      !.pc = "idle",
                      !.log = IF d = c
                              THEN @ \o << Analyzed(result),
                                           Send([type |-> "analysis_result",
                                                 result |-> result]) >>
                              ELSE @]]
    /\ server' = [server EXCEPT !.loop = 0]
    /\ UNCHANGED <<conn, session, emotion_history, posture_history, log, budget,
                   models, threads>>

\* The model calls of consumer c return: the result is folded into its own
\* histories, flushed when due and sent; the handler ends.
PeerEndInference(c, frame) ==
    /\ server.loop = c
    /\ instances[c].pc = "inference"
    /\ LET result == analyze_frame(frame[1], frame[2])
           eh == FoldEmotion(instances[c].emotion_history, result)
           ph == FoldPosture(instances[c].posture_history, result)
       IN  instances' =
               [instances EXCEPT
                  ![c].emotion_history = eh,
                  ![c].posture_history = ph,
                  ![c].pc = "idle",
                  ![c].log = @ \o << Analyzed(result) >>
                               \o (IF ShouldFlush(eh, instances[c].session)
                                   THEN << SaveCall(TRUE) >>
                                        \o save_records(instances[c].session, result)
                                   ELSE << >>)
                               \o << Send([type |-> "analysis_result",
                                           result |-> result]) >>]
    /\ server' = [server EXCEPT !.loop = 0]
    /\ UNCHANGED <<conn, session, emotion_history, posture_history, log, budget,
                   models, threads>>

\* receive() of get_metrics by consumer c.
PeerGetMetrics(c) ==
    /\ PeerCanReceive(c)
    /\ instances' =
           [instances EXCEPT
              ![c].budget = @ - 1,
              ![c].log = @ \o << Recv("get_metrics", "-"),
                                 Send([ type |-> "metrics",
                                        metrics |-> calculate_metrics(
                                            instances[c].emotion_history,
                                            instances[c].posture_history) ]) >>]
    /\ UNCHANGED <<conn, session, emotion_history, posture_history, log, budget,
                   models, threads, server>>

\* receive() of stop by consumer c: finalize_session, session_ended, close.
PeerStop(c) ==
    /\ PeerCanReceive(c)
    /\ LET fin == PeerFinalize(c)
       IN  /\ instances' =
                 [instances EXCEPT
                    ![c].budget = @ - 1,
                    ![c].conn = "closing",
                    ![c].session = fin.session,
                    ![c].log = @ \o << Recv("stop", "-") >> \o fin.writes
                                 \o << Send([ type |-> "session_ended",
                                              metrics |-> calculate_metrics(
                                                  instances[c].emotion_history,
                                                  instances[c].posture_history) ]),
                                       Closed >>]
           /\ server' = [server EXCEPT !.rows = SavedRows(@, fin.session)]
    /\ UNCHANGED <<conn, session, emotion_history, posture_history, log, budget,
                   models, threads>>

\* disconnect() of consumer c.
PeerDisconnect(c) ==
    /\ LoopFree
    /\ instances[c].pc = "idle"
    /\ instances[c].conn \in {"open", "closing"}
    /\ LET fin == PeerFinalize(c)
       IN  /\ instances' =
                 [instances EXCEPT
                    ![c].conn = "closed",
                    ![c].session = fin.session,
                    ![c].log = @ \o << Dropped >> \o fin.writes]
           /\ server' = [server EXCEPT !.rows = SavedRows(@, fin.session)]
    /\ UNCHANGED <<conn, session, emotion_history, posture_history, log, budget,
                   models, threads>>

NextSessions ==
    \/ \E c \in Consumers : PeerConnect(c)
    \/ \E c \in Consumers : PeerBeginFrame(c)
    \/ \E c \in Consumers, frame \in PeerFrames : PeerEndInference(c, frame)
    \/ \E c \in Consumers : PeerGetMetrics(c)
    \/ \E c \in Consumers : PeerStop(c)
    \/ \E c \in Consumers : PeerDisconnect(c)

SpecSessions == InitModels /\ [][NextSessions]_vars

----------------------------------------------------------------------------
(* Observations over the history *)

IsDb(e, op) == e.k = "db" /\ e.op = op

IsSend(e, type) == e.k = "send" /\ e.msg.type = type

IsFrame(e) == e.k = "recv" /\ e.type = "frame"

\* Rows written by session.save() in finalize_session, oldest first.
SessionSaves == SelectSeq(log, LAMBDA e : IsDb(e, "session_save"))

\* BehaviorAlert rows created, oldest first.
AlertRows ==
    LET rows == SelectSeq(log, LAMBDA e : IsDb(e, "alert"))
    IN  [i \in DOMAIN rows |-> rows[i].row]

\* The results analyze_frame returned among the first n entries of the history.
ResultsBefore(n) ==
    LET es == SelectSeq(SubSeq(log, 1, n), LAMBDA e : e.k = "analyze")
    IN  [i \in DOMAIN es |-> es[i].result]

\* Index of the received stop message; 0 when none was received.
StopIndex ==
    IF \E i \in DOMAIN log : log[i] = Recv("stop", "-")
    THEN CHOOSE i \in DOMAIN log : log[i] = Recv("stop", "-")
    ELSE 0

\* A session row was created for this connection.
SessionCreated == \E i \in DOMAIN log : IsDb(log[i], "session_create")

----------------------------------------------------------------------------
(* Claims *)

\* C1: for a connection with a created AnalysisSession, once the connection
\* has terminated (stop followed by the disconnect it triggers, or a bare
\* drop), finalize_session has run exactly once: the summary was saved once
\* and the BehaviorAlert rows are the alerts of the final metrics, each once.
C1_FinalizeExactlyOnce ==
    (conn = "closed" /\ SessionCreated) =>
        /\ Len(SessionSaves) = 1
        /\ AlertRows = calculate_metrics(emotion_history, posture_history).alerts

\* C2: after a stop message the history holds, in this order and each exactly
\* once, the save of finalize, the session_ended message and the close of the
\* transport, and session_ended carries the metrics finalize saved.
C2_StopSequence ==
    (StopIndex # 0 /\ SessionCreated) =>
        LET tail == SubSeq(log, StopIndex + 1, Len(log))
            marks == SelectSeq(tail, LAMBDA e :
                        \/ IsDb(e, "session_save")
                        \/ IsSend(e, "session_ended")
                        \/ e.k = "close")
        IN  /\ Len(marks) = 3
            /\ IsDb(marks[1], "session_save")
            /\ IsSend(marks[2], "session_ended")
            /\ marks[3].k = "close"
            /\ LET saved == marks[1].row
                   m == marks[2].msg.metrics
               IN  /\ saved.sad_pct = PctGet(m.emotion_percentages, "sad")
                   /\ saved.happy_pct = PctGet(m.emotion_percentages, "happy")
                   /\ saved.head_down_count = m.posture_counts.head_down
                   /\ saved.hunched_count = m.posture_counts.hunched
                   /\ saved.hands_on_face_count = m.posture_counts.hands_on_face
                   /\ m.total_frames = Len(emotion_history)

\* C3: once finalize has run, the session state is cleared or retired: both
\* histories are empty, or self.session no longer refers to a session.
C3_ClearedAfterFinalize ==
    Len(SessionSaves) >= 1 =>
        \/ emotion_history = << >> /\ posture_history = << >>
        \/ ~HasSession(session)

\* C4: every frame message whose image does not decode is answered with
\* exactly one error message (and with nothing else).
C4_DecodeFailureAnswered ==
    \A i \in DOMAIN log :
        (IsFrame(log[i]) /\ log[i].image \in DecodeFailures) =>
            /\ i + 1 <= Len(log)
            /\ IsSend(log[i + 1], "error")
            /\ (i + 2 <= Len(log) => log[i + 2].k # "send")

\* C5: within a session, save_records is called for the k-th processed frame
\* (counting analysed frames from 1) iff k is a multiple of 10.
C5_FlushEveryTenth ==
    SessionCreated =>
        \A i \in DOMAIN log :
            log[i].k = "analyze" =>
                ((i + 1 <= Len(log) /\ log[i + 1].k = "save_records")
                    <=> Len(ResultsBefore(i)) % FlushEvery = 0)

\* The emotion history that folding the first n entries' results gives:
\* the emotions of the analysed frames that had one, in order.
EmotionsBefore(n) ==
    LET rs == SelectSeq(ResultsBefore(n), LAMBDA r : r.emotion # NoEmotion)
    IN  [i \in DOMAIN rs |-> rs[i].emotion]

\* The posture history that folding the first n entries' results gives.
PosturesBefore(n) ==
    LET rs == SelectSeq(ResultsBefore(n),
                        LAMBDA r : r.head_down \/ r.hunched \/ r.hands_on_face)
    IN  [i \in DOMAIN rs |->
            [ head_down |-> rs[i].head_down, hunched |-> rs[i].hunched,
              hands_on_face |-> rs[i].hands_on_face ]]

\* The entries the last step appended to the history.
NewEntries == SubSeq(log', Len(log) + 1, Len(log'))

\* Entry i is a metrics snapshot sent to the client.
IsSnapshot(i) == IsSend(log[i], "metrics") \/ IsSend(log[i], "session_ended")

\* C6: the histories, and so the metrics computed from them, are those of
\* the analysed frames alone, whether each save_records call succeeded,
\* failed or was skipped: every snapshot sent, and the metrics of the current
\* state, are the metrics of the frames analysed so far.
C6_MetricsIgnoreFlush ==
    /\ emotion_history = EmotionsBefore(Len(log))
    /\ posture_history = PosturesBefore(Len(log))
    /\ \A i \in DOMAIN log :
          IsSnapshot(i) =>
              log[i].msg.metrics =
                  calculate_metrics(EmotionsBefore(i), PosturesBefore(i))

\* C6 witness: the flush of the tenth frame failed, a later frame was folded
\* and a snapshot covering both was sent.
C6_Witness ==
    \E i, j \in DOMAIN log :
        /\ i < j
        /\ log[i] = SaveCall(FALSE)
        /\ IsSend(log[j], "metrics")
        /\ log[j].msg.metrics.total_frames = FlushEvery + 1

\* C7 (state part): the emotion history holds no none entry and every
\* posture-history entry has at least one true flag.
C7_HistoriesWellFormed ==
    /\ \A i \in DOMAIN emotion_history : emotion_history[i] # NoEmotion
    /\ \A i \in DOMAIN posture_history :
          \/ posture_history[i].head_down
          \/ posture_history[i].hunched
          \/ posture_history[i].hands_on_face

\* C7 (step part): a step that analysed a frame appends the result's emotion
\* iff it is not none and its posture triple iff a flag is true, leaving the
\* earlier entries as they were; every other step leaves both histories alone.
C7_FoldStep ==
    LET rs == SelectSeq(NewEntries, LAMBDA e : e.k = "analyze")
    IN  IF rs = << >>
        THEN emotion_history' = emotion_history /\ posture_history' = posture_history
        ELSE
            LET r == rs[1].result
            IN  /\ emotion_history' =
                     IF r.emotion # NoEmotion
                     THEN Append(emotion_history, r.emotion)
                     ELSE emotion_history
                /\ posture_history' =
                     IF r.head_down \/ r.hunched \/ r.hands_on_face
                     THEN Append(posture_history,
                                 [ head_down |-> r.head_down, hunched |-> r.hunched,
                                   hands_on_face |-> r.hands_on_face ])
                     ELSE posture_history

\* C7: folding appends the emotion iff it is not none and the posture triple
\* iff a flag is true; the histories hold no none entry and no all-false
\* triple, and are append-only.
C7_Fold == []C7_HistoriesWellFormed /\ [][C7_FoldStep]_vars

\* C7 witness: a frame without emotion but with a posture flag and a frame
\* with an emotion but without posture flag were folded.
C7_Witness ==
    /\ Len(ResultsBefore(Len(log))) = 2
    /\ Len(emotion_history) = 1
    /\ Len(posture_history) = 1
    /\ \E i \in DOMAIN log :
          /\ log[i].k = "analyze"
          /\ log[i].result.emotion = NoEmotion
          /\ log[i].result.hunched

\* C8 (step part): a step that received get_metrics leaves both histories and
\* the session as they were, writes nothing to the database, keeps the
\* transport open and sends one metrics message.
C8_GetMetricsStep ==
    (NewEntries # << >> /\ NewEntries[1] = Recv("get_metrics", "-")) =>
        /\ UNCHANGED <<emotion_history, posture_history, session, conn>>
        /\ Len(NewEntries) = 2
        /\ IsSend(NewEntries[2], "metrics")

\* C8 (state part): two metrics messages with no analysed frame between them
\* carry equal snapshots.
C8_EqualSnapshots ==
    \A i, j \in DOMAIN log :
        ( /\ i < j
          /\ IsSend(log[i], "metrics")
          /\ IsSend(log[j], "metrics")
          /\ \A m \in i .. j : log[m].k # "analyze" ) =>
            log[i].msg.metrics = log[j].msg.metrics

\* C8: get_metrics is non-destructive and repeatable.
C8_GetMetricsPure == []C8_EqualSnapshots /\ [][C8_GetMetricsStep]_vars

\* C8 witness: two metrics requests were answered after a frame with an
\* emotion and a posture flag was folded, with no fold between them.
C8_Witness ==
    \E i, j \in DOMAIN log :
        /\ i < j
        /\ IsSend(log[i], "metrics")
        /\ IsSend(log[j], "metrics")
        /\ log[i].msg.metrics.total_frames = 1
        /\ emotion_history # << >>
        /\ posture_history # << >>

\* C9: a metrics snapshot (metrics or session_ended) sent while no analysed frame had an emotion reports
\* total_frames 0, no percentages, posture counts 0, 0, 0 and no alerts.
C9_EmptyMetrics ==
    \A i \in DOMAIN log :
        (IsSnapshot(i) /\ EmotionsBefore(i) = << >>) =>
            LET m == log[i].msg.metrics
            IN  /\ m.total_frames = 0
                /\ DOMAIN m.emotion_percentages = {}
                /\ m.posture_counts.head_down = 0
                /\ m.posture_counts.hunched = 0
                /\ m.posture_counts.hands_on_face = 0
                /\ m.alerts = << >>

\* C9 witness: metrics were requested when no frame had had an emotion but a
\* frame with head_down had been folded.
C9_Witness ==
    \E i \in DOMAIN log :
        /\ IsSend(log[i], "metrics")
        /\ EmotionsBefore(i) = << >>
        /\ \E j \in 1 .. i : log[j].k = "analyze" /\ log[j].result.head_down

RECURSIVE SumNumerators(_, _)
SumNumerators(pcts, cats) ==
    IF cats = {}
    THEN 0
    ELSE LET c == CHOOSE x \in cats : TRUE
         IN  pcts[c].n + SumNumerators(pcts, cats \ {c})

----------------------------------------------------------------------------
(* Alert rules and the session's final state *)

\* The types of the alerts of a metrics snapshot.
AlertTypes(alerts) == { alerts[k].type : k \in DOMAIN alerts }

\* The severity the alerts of the given type carry in a list.
Severities(alerts, type) ==
    { alerts[k].severity : k \in { j \in DOMAIN alerts : alerts[j].type = type } }

\* Number of head_down entries of a posture history.
HeadDownCount(ph) == Cardinality({ k \in DOMAIN ph : ph[k].head_down })

\* C11: in every metrics snapshot over at least one emotion frame, each of
\* the four alerts is present exactly when its own strict threshold is
\* passed, whatever the other three rules say: high_sadness iff sad frames
\* are more than 35% of the total, high_anxiety iff fear frames are more
\* than 25%, high_anger iff angry frames are more than 30% (all medium),
\* depressive_posture (low) iff head_down entries are more than 0.3 times
\* the total; a category never seen counts as 0.
C11_IndependentAlerts ==
    \A i \in DOMAIN log :
        (IsSnapshot(i) /\ EmotionsBefore(i) # << >>) =>
            LET es == EmotionsBefore(i)
                total == Len(es)
                hd == HeadDownCount(PosturesBefore(i))
                alerts == log[i].msg.metrics.alerts
                types == AlertTypes(alerts)
            IN  /\ log[i].msg.metrics.total_frames = total
                /\ ("high_sadness" \in types) <=> (100 * Count(es, "sad") > 35 * total)
                /\ ("high_anxiety" \in types) <=> (100 * Count(es, "fear") > 25 * total)
                /\ ("high_anger" \in types) <=> (100 * Count(es, "angry") > 30 * total)
                /\ ("depressive_posture" \in types) <=> (10 * hd > 3 * total)
                /\ Severities(alerts, "high_sadness") \subseteq {"medium"}
                /\ Severities(alerts, "high_anxiety") \subseteq {"medium"}
                /\ Severities(alerts, "high_anger") \subseteq {"medium"}
                /\ Severities(alerts, "depressive_posture") \subseteq {"low"}
                /\ (total = 10 /\ hd = 4) => "depressive_posture" \in types
                /\ (total = 10 /\ hd = 3) => "depressive_posture" \notin types

\* A snapshot that carries all four alerts at once.
C11_Witness ==
    \E i \in DOMAIN log :
        /\ IsSnapshot(i)
        /\ AlertTypes(log[i].msg.metrics.alerts) =
               {"high_sadness", "high_anxiety", "high_anger", "depressive_posture"}

\* Position of an alert type in the table of rules.
AlertRank(type) ==
    CASE type = "high_sadness" -> 1
      [] type = "high_anxiety" -> 2
      [] type = "high_anger" -> 3
      [] type = "depressive_posture" -> 4

\* C12: the alerts of every metrics snapshot, and the alert rows each run of
\* finalize_session writes after its session save, are in the order
\* high_sadness, high_anxiety, high_anger, depressive_posture with each type
\* at most once, whatever the order the emotion categories were folded in.
C12_AlertOrder ==
    /\ \A i \in DOMAIN log :
          IsSnapshot(i) =>
              LET alerts == log[i].msg.metrics.alerts
              IN  \A j, k \in DOMAIN alerts :
                      j < k => AlertRank(alerts[j].type) < AlertRank(alerts[k].type)
    /\ \A i \in DOMAIN log :
          (i < Len(log) /\ IsDb(log[i], "alert") /\ IsDb(log[i + 1], "alert")) =>
              AlertRank(log[i].row.type) < AlertRank(log[i + 1].row.type)

\* A session whose first emotion frame was angry and whose last was sad has
\* sent a snapshot with several alerts and persisted several alert rows.
C12_Witness ==
    /\ Len(emotion_history) > 1
    /\ emotion_history[1] = "angry"
    /\ emotion_history[Len(emotion_history)] = "sad"
    /\ \E i \in DOMAIN log :
          IsSnapshot(i) /\ Len(log[i].msg.metrics.alerts) >= 3
    /\ \E i \in DOMAIN log :
          i < Len(log) /\ IsDb(log[i], "alert") /\ IsDb(log[i + 1], "alert")

\* C13: every session row finalize_session saves has overall_state sad when
\* sad frames are more than 35% of the emotion frames, else anxious when fear
\* frames are more than 25%, else stable; an empty session is stable.
C13_FinalState ==
    \A i \in DOMAIN log :
        IsDb(log[i], "session_save") =>
            LET es == EmotionsBefore(i)
                total == Len(es)
            IN  log[i].row.overall_state =
                    IF total > 0 /\ 100 * Count(es, "sad") > 35 * total THEN "sad"
                    ELSE IF total > 0 /\ 100 * Count(es, "fear") > 25 * total
                         THEN "anxious"
                    ELSE "stable"

\* A saved session that passed both the sad and the fear threshold and is sad.
C13_Witness ==
    \E i \in DOMAIN log :
        /\ IsDb(log[i], "session_save")
        /\ log[i].row.overall_state = "sad"
        /\ LET es == EmotionsBefore(i)
           IN  /\ 100 * Count(es, "sad") > 35 * Len(es)
               /\ 100 * Count(es, "fear") > 25 * Len(es)

----------------------------------------------------------------------------
(* Per-frame state and fault policies of the three analysis paths *)

\* The per-frame state the precedence table gives.
StateTable(emotion, head_down, hunched, hands_on_face) ==
    IF emotion \in {"sad", "fear", "angry"} /\ (head_down \/ hunched) THEN "anxious"
    ELSE IF emotion \in {"sad", "fear", "angry"} THEN "stressed"
    ELSE IF hands_on_face THEN "nervous"
    ELSE "normal"

\* The entries of the history from entry i on.
EntriesFrom(i) == { log[j] : j \in i .. Len(log) }

\* The responses sent for the request at entry i.
ResponsesFrom(i) == { e.response : e \in { f \in EntriesFrom(i) : f.k = "http_response" } }

\* The results analyze_frame returned for the frame received at entry i.
ResultsFrom(i) == { e.result : e \in { f \in EntriesFrom(i) : f.k = "analyze" } }

\* C14: every result of the streaming analyzer and every analysis of the
\* single-image analyzer has the overall_state of the precedence table for
\* its emotion and posture flags: anxious, else stressed, else nervous, else
\* normal.
C14_OverallState ==
    \A i \in DOMAIN log :
        /\ log[i].k = "analyze" =>
              LET r == log[i].result
              IN  r.overall_state =
                      StateTable(r.emotion, r.head_down, r.hunched, r.hands_on_face)
        /\ (log[i].k = "http_response" /\ log[i].response.status = 200) =>
              LET r == log[i].response.analysis
              IN  r.overall_state =
                      StateTable(r.emotion, r.head_down, r.hunched, r.hands_on_face)

\* The streaming analyzer returned stressed for a sad frame with hands on the face.
C14_Witness ==
    \E i \in DOMAIN log :
        /\ log[i].k = "analyze"
        /\ log[i].result.emotion = "sad"
        /\ log[i].result.hands_on_face
        /\ ~log[i].result.head_down
        /\ ~log[i].result.hunched
        /\ log[i].result.overall_state = "stressed"

\* The CLI text that stands for a streaming overall_state.
CliText(state) ==
    CASE state = "anxious" -> "Posible tristeza/ansiedad"
      [] state = "stressed" -> "Emocion:"
      [] state = "nervous" -> "Nerviosismo detectado"
      [] state = "normal" -> "Normal"

\* C15: the state the CLI loop shows for a frame is the one the streaming
\* precedence gives for the same emotion and flags; hands on the face show
\* as nervousness only when the emotion is not sad, fear or angry.
C15_CliSameBranchOrder ==
    \A i \in DOMAIN log :
        log[i].k = "cli" =>
            log[i].estado.text =
                CliText(StateTable(log[i].emotion, log[i].posture_flag,
                                   log[i].hunched, log[i].hands_on_face))

\* The keys of a complete streaming result.
FrameResultFields ==
    { "emotion", "emotion_scores", "head_down", "hunched", "hands_on_face",
      "overall_state", "timestamp" }

\* C16: for every frame that decoded to a raster, analyze_frame returned a
\* complete result and raised nothing, whichever step failed (model loading,
\* resize, classifier, pose estimator); when both models failed the result
\* is the default one.
C16_AnalyzeNeverRaises ==
    \A i \in DOMAIN log :
        log[i] = Recv("frame", "raster") =>
            /\ Raised("analyze_frame") \notin EntriesFrom(i)
            /\ \E r \in ResultsFrom(i) :
                  /\ DOMAIN r = FrameResultFields
                  /\ (i < Len(log) /\ log[i + 1].k = "env"
                      /\ log[i + 1].cls.fault = "analyze" /\ log[i + 1].pose.fault) =>
                        /\ r.emotion = NoEmotion
                        /\ r.emotion_scores = {}
                        /\ ~r.head_down /\ ~r.hunched /\ ~r.hands_on_face
                        /\ r.overall_state = "normal"

\* C17: when analyze_frame returned for a frame whose emotion step had a
\* fault (in the classifier call or while converting the scores), the result
\* has emotion none and empty scores, the pose flags are those the pose step
\* found, and the client got an analysis_result; when only the pose step had
\* a fault the emotion of the classifier is in the result.
C17_EmotionFaultSwallowed ==
    \A i \in DOMAIN log :
        (log[i].k = "env" /\ log[i - 1] = Recv("frame", "raster")
         /\ log[i].load = "ok" /\ log[i].resize = "ok") =>
            \E r \in ResultsFrom(i) :
                /\ log[i].cls.fault # "none" =>
                      /\ r.emotion = NoEmotion
                      /\ r.emotion_scores = {}
                      /\ << r.head_down, r.hunched, r.hands_on_face >> = log[i].pose.flags
                      /\ Send([type |-> "analysis_result", result |-> r]) \in EntriesFrom(i)
                /\ (log[i].pose.fault /\ log[i].cls.fault = "none") =>
                      /\ r.emotion = log[i].cls.emotion
                      /\ r.emotion_scores # {}

ErrorFields == {"emotion_error", "posture_error"}

\* C18: a single-image request whose image decoded and whose models loaded
\* is answered with success whatever the emotion and pose steps did: the
\* analysis has emotion_error exactly when the classifier raised (with
\* emotion, scores, age and gender at their defaults and the pose flags as
\* found) and posture_error exactly when the pose model raised (flags false,
\* emotion as classified).  A streaming analysis_result never has either.
C18_FaultPolicies ==
    \A i \in DOMAIN log :
        /\ (log[i].k = "env" /\ log[i - 1].k = "http_request"
            /\ \E r \in ResponsesFrom(i) : r.status # 400
            /\ log[i].load = "ok" /\ log[i].resize = "ok") =>
              \A resp \in ResponsesFrom(i) :
                  /\ resp.status = 200
                  /\ resp.success
                  /\ LET a == resp.analysis
                         cls == log[i].cls
                         pose == log[i].pose
                     IN  /\ ("emotion_error" \in DOMAIN a) <=> (cls.fault = "analyze")
                         /\ ("posture_error" \in DOMAIN a) <=> pose.fault
                         /\ cls.fault = "analyze" =>
                               /\ a.emotion = NoEmotion
                               /\ a.emotion_scores = {}
                               /\ a.age = Absent
                               /\ a.gender = Absent
                         /\ cls.fault # "analyze" => a.emotion = cls.emotion
                         /\ << a.head_down, a.hunched, a.hands_on_face >> = pose.flags
                         /\ Invoke("DeepFace.analyze") \in EntriesFrom(i)
                         /\ Invoke("pose_model") \in EntriesFrom(i)
        /\ IsSend(log[i], "analysis_result") =>
              DOMAIN log[i].msg.result \cap ErrorFields = {}

\* A successful single-image response that carries emotion_error next to a
\* posture flag the pose step found.
C18_Witness ==
    \E i \in DOMAIN log :
        /\ log[i].k = "http_response"
        /\ log[i].response.status = 200
        /\ "emotion_error" \in DOMAIN log[i].response.analysis
        /\ "posture_error" \notin DOMAIN log[i].response.analysis
        /\ log[i].response.analysis.head_down

\* The image a request carries is unusable: the field is missing or empty,
\* or what remains after an optional data-URI prefix is not a base64 image.
Unusable(image) ==
    \/ image = NoImage
    \/ image = << "" >>
    \/ (IF Len(image) = 2 /\ image[1] = DataPrefix THEN image[2] ELSE image[1])
           \in {"", "bad_base64", "not_image", DataPrefix}

\* C19: a single-image request with a missing, empty, non-base64 or
\* undecodable image is answered with an error and no analysis, and no model
\* function is called for it; a valid image behind a data-URI prefix gets the
\* response the same image gets without the prefix.
C19_DecodeErrors ==
    \A i \in DOMAIN log :
        log[i].k = "http_request" =>
            LET image == log[i].image
                env == log[i + 1]
            IN  /\ Unusable(image) =>
                      /\ \A e \in EntriesFrom(i) : e.k # "invoke"
                      /\ \A resp \in ResponsesFrom(i) :
                            /\ resp.status = 400
                            /\ "error" \in DOMAIN resp
                            /\ "analysis" \notin DOMAIN resp
                /\ image = << DataPrefix, "valid" >> =>
                      ResponsesFrom(i) =
                          { analyze_image(<< "valid" >>, env.emptyBuf, env.load,
                                          env.resize, env.cls, env.pose).response }
                /\ ResponsesFrom(i) # {}

\* A prefixed valid image was analysed.
C19_Witness ==
    \E i \in DOMAIN log :
        /\ log[i] = HttpRequest(<< DataPrefix, "valid" >>)
        /\ \E resp \in ResponsesFrom(i) :
              resp.status = 200 /\ resp.analysis.emotion = "happy"

----------------------------------------------------------------------------
(* Lazy model loading under concurrency *)

\* C20: however the calls of the lazy getters interleave, the deepface
\* package is imported at most once and a YOLO model is constructed at most
\* once in the process, and all callers that have returned hold the same
\* pair of model instances.
C20_LoadOnce ==
    /\ models.deepface_imports <= 1
    /\ models.yolo_loads <= 1
    /\ \A t, u \in Threads :
          (threads[t].calls > 0 /\ threads[t].pc = "idle"
           /\ threads[u].calls > 0 /\ threads[u].pc = "idle") =>
              threads[t].got = threads[u].got

----------------------------------------------------------------------------
(* Unknown messages, missing sessions, summary consistency *)

\* C23 (step part): a step that received a message of an unknown type adds
\* nothing else to the history (no message sent, no row written, no close)
\* and leaves the histories, the session and the transport as they were.
C23_OtherStep ==
    (NewEntries # << >> /\ NewEntries[1] = Recv("other", "-")) =>
        /\ Len(NewEntries) = 1
        /\ UNCHANGED <<emotion_history, posture_history, session, conn>>

\* C23: a well-formed message whose type is not frame, get_metrics or stop
\* is silently ignored.
C23_UnknownIgnored == [][C23_OtherStep]_vars

\* An unknown message was the last thing that happened on an open connection
\* with a session and a folded frame.
C23_Witness ==
    /\ log # << >>
    /\ log[Len(log)] = Recv("other", "-")
    /\ conn = "open"
    /\ HasSession(session)
    /\ emotion_history # << >>

\* C24: on a connection whose person_id matched no person (no session was
\* created, session_started carried no id), every decodable frame, get_metrics
\* or stop request is answered with an error message and with nothing else
\* before it.
C24_MissingSessionReported ==
    (\E i \in DOMAIN log :
        log[i] = Send([type |-> "session_started", session_id |-> 0])) =>
        \A i \in DOMAIN log :
            log[i] \in { Recv("frame", "raster"), Recv("get_metrics", "-"),
                         Recv("stop", "-") } =>
                \E j \in (i + 1) .. Len(log) :
                    /\ IsSend(log[j], "error")
                    /\ \A m \in (i + 1) .. (j - 1) : log[m].k # "send"

\* The types of the alert rows written right after the session save at entry i.
AlertRunTypes(i) ==
    { log[j].row.type :
        j \in { n \in (i + 1) .. Len(log) :
                  \A m \in (i + 1) .. n : IsDb(log[m], "alert") } }

\* C28: every session row finalize_session saves agrees with the alert rows
\* it creates next: sad iff high_sadness is among them, anxious iff
\* high_anxiety is and high_sadness is not, stable iff neither is; the row
\* is never stressed or nervous.
C28_SummaryMatchesAlerts ==
    \A i \in DOMAIN log :
        IsDb(log[i], "session_save") =>
            LET state == log[i].row.overall_state
                types == AlertRunTypes(i)
            IN  /\ (state = "sad") <=> ("high_sadness" \in types)
                /\ (state = "anxious") <=>
                       ("high_anxiety" \in types /\ "high_sadness" \notin types)
                /\ (state = "stable") <=>
                       ("high_anxiety" \notin types /\ "high_sadness" \notin types)
                /\ state \notin {"stressed", "nervous"}

\* A session saved as anxious whose alerts are high_anxiety and high_anger.
C28_Witness ==
    \E i \in DOMAIN log :
        /\ IsDb(log[i], "session_save")
        /\ log[i].row.overall_state = "anxious"
        /\ {"high_anxiety", "high_anger"} \subseteq AlertRunTypes(i)

\* Number of entries of a posture history with the given flag set.
FlagCount(ph, flag) == Cardinality({ k \in DOMAIN ph : ph[k][flag] })

\* C29: the posture counts of every metrics snapshot and of every saved
\* session row are, flag by flag, the number of entries of the posture
\* history with that flag set, also when no frame had an emotion.
C29_PostureCounts ==
    \A i \in DOMAIN log :
        /\ IsSnapshot(i) =>
              LET ph == PosturesBefore(i)
                  pc == log[i].msg.metrics.posture_counts
              IN  /\ pc.head_down = FlagCount(ph, "head_down")
                  /\ pc.hunched = FlagCount(ph, "hunched")
                  /\ pc.hands_on_face = FlagCount(ph, "hands_on_face")
        /\ IsDb(log[i], "session_save") =>
              LET ph == PosturesBefore(i)
                  row == log[i].row
              IN  /\ row.head_down_count = FlagCount(ph, "head_down")
                  /\ row.hunched_count = FlagCount(ph, "hunched")
                  /\ row.hands_on_face_count = FlagCount(ph, "hands_on_face")

----------------------------------------------------------------------------
(* End-of-run report of the CLI loop *)

CliWarnings == {"Tristeza elevada", "Miedo/ansiedad elevada", "Irritabilidad elevada"}

\* C30: in every report printed for a non-empty emotion history, the stable
\* line is printed exactly when none of the three warnings is, so the report
\* has at least one verdict line and never a warning next to the stable line.
C30_ReportVerdict ==
    \A i \in DOMAIN log :
        (log[i].k = "cli_report"
         /\ \E j \in 1 .. (i - 1) : log[j].k = "cli" /\ log[j].emotion # NoEmotion) =>
            LET lines == Range(log[i].lines)
            IN  /\ ("Estado emocional estable" \in lines) <=> (lines \cap CliWarnings = {})
                /\ lines # {}

----------------------------------------------------------------------------
(* Posture heuristics *)

\* A keypoint is valid unless both of its coordinates are <= 0.
Valid(point) == ~(point[1] <= 0 /\ point[2] <= 0)

\* The result analysed for the keypoints recorded at entry i.
ResultAfter(i) == log[i + 1].result

\* C25: for a frame with one person, head_down is true iff nose and both
\* shoulders are valid and the nose is strictly below the shoulder midline;
\* when the nose or a shoulder is undetected, head_down and hunched are false.
C25_HeadDown ==
    \A i \in DOMAIN log :
        (log[i].k = "keypoints" /\ Len(log[i].persons) = 1) =>
            LET q == log[i].persons[1]
                all_valid == Valid(q.nose) /\ Valid(q.left_shoulder)
                             /\ Valid(q.right_shoulder)
                r == ResultAfter(i)
            IN  /\ r.head_down <=>
                       (all_valid
                        /\ 2 * q.nose[2] > q.left_shoulder[2] + q.right_shoulder[2])
                /\ ~all_valid => (~r.head_down /\ ~r.hunched)

\* C26: for a frame of width W with one person whose shoulders are both
\* valid, hunched is true iff the horizontal shoulder distance is strictly
\* less than 0.15 W, whether or not the nose was detected.
C26_Hunched ==
    \A i \in DOMAIN log :
        (log[i].k = "keypoints" /\ Len(log[i].persons) = 1
         /\ Valid(log[i].persons[1].left_shoulder)
         /\ Valid(log[i].persons[1].right_shoulder)) =>
            LET q == log[i].persons[1]
                d == Abs(q.left_shoulder[1] - q.right_shoulder[1])
            IN  ResultAfter(i).hunched <=> (100 * d < 15 * log[i].width)

\* Some wrist of the person is valid, as is the nose, and less than 100
\* pixels from it.
HandNearFace(q) ==
    \E wrist \in {q.left_wrist, q.right_wrist} :
        /\ Valid(wrist)
        /\ Valid(q.nose)
        /\ (wrist[1] - q.nose[1]) * (wrist[1] - q.nose[1])
           + (wrist[2] - q.nose[2]) * (wrist[2] - q.nose[2]) < 100 * 100

\* C27: hands_on_face of a frame is true iff some person has a valid wrist
\* strictly less than 100 pixels from their valid nose; one wrist and one
\* person suffice, whatever the other persons' keypoints are.
C27_HandsOnFace ==
    \A i \in DOMAIN log :
        log[i].k = "keypoints" =>
            (ResultAfter(i).hands_on_face <=>
                \E n \in DOMAIN log[i].persons : HandNearFace(log[i].persons[n]))

\* C21: while the model-inference call of one session is in flight, a frame
\* of a different session can still be processed: whenever a consumer is
\* inside its inference call and other open sessions have a frame waiting,
\* the frame handler of at least one of them can start.
C21_OthersNotBlocked ==
    \A c \in Consumers :
        LET waiting == { d \in Consumers \ {c} :
                            /\ instances[d].conn = "open"
                            /\ instances[d].pc = "idle"
                            /\ instances[d].budget > 0 }
        IN  (instances[c].pc = "inference" /\ waiting # {}) =>
                \E d \in waiting : ENABLED PeerBeginFrame(d)

\* The results consumer c analysed within the first n entries of its history.
PeerResultsBefore(c, n) ==
    LET es == SelectSeq(SubSeq(instances[c].log, 1, n), LAMBDA e : e.k = "analyze")
    IN  [i \in DOMAIN es |-> es[i].result]

\* The emotion history that folding those results gives.
PeerEmotionsBefore(c, n) ==
    LET rs == SelectSeq(PeerResultsBefore(c, n), LAMBDA r : r.emotion # NoEmotion)
    IN  [i \in DOMAIN rs |-> rs[i].emotion]

\* The posture history that folding those results gives.
PeerPosturesBefore(c, n) ==
    LET rs == SelectSeq(PeerResultsBefore(c, n),
                        LAMBDA r : r.head_down \/ r.hunched \/ r.hands_on_face)
    IN  [i \in DOMAIN rs |->
            [ head_down |-> rs[i].head_down, hunched |-> rs[i].hunched,
              hands_on_face |-> rs[i].hands_on_face ]]

\* The histories of every consumer are those of its own analysed frames, and
\* every metrics snapshot it sent is computed from them alone.
C22_OwnMetrics ==
    \A c \in Consumers :
        LET own == instances[c].log
        IN  /\ instances[c].emotion_history = PeerEmotionsBefore(c, Len(own))
            /\ instances[c].posture_history = PeerPosturesBefore(c, Len(own))
            /\ \A i \in DOMAIN own :
                  (IsSend(own[i], "metrics") \/ IsSend(own[i], "session_ended")) =>
                      own[i].msg.metrics =
                          calculate_metrics(PeerEmotionsBefore(c, i),
                                            PeerPosturesBefore(c, i))

\* A step of one consumer leaves the histories and the saved session row of
\* every other consumer as they were.
C22_Step ==
    \A d \in Consumers :
        (\E c \in Consumers \ {d} : instances'[c] # instances[c]) =>
            /\ instances'[d].emotion_history = instances[d].emotion_history
            /\ instances'[d].posture_history = instances[d].posture_history
            /\ instances'[d].session = instances[d].session
            /\ HasSession(instances[d].session) =>
                   server'.rows[instances[d].session.id]
                       = server.rows[instances[d].session.id]

\* C22: each session exclusively owns its histories and summary: under any
\* interleaving of the messages of concurrent sessions, a fold, metrics or
\* finalize of one session leaves every other session's emotion history,
\* posture history and saved summary unchanged, and the metrics of each
\* session depend only on the frames it folded itself.
C22_SessionsIsolated == []C22_OwnMetrics /\ [][C22_Step]_vars

\* C22 witness: two sessions with different non-empty emotion histories, one
\* of which was sent its metrics while the other was finalized and saved.
C22_Witness ==
    \E c, d \in Consumers :
        /\ c # d
        /\ instances[c].emotion_history # << >>
        /\ instances[d].emotion_history # << >>
        /\ instances[c].emotion_history # instances[d].emotion_history
        /\ \E i \in DOMAIN instances[c].log : IsSend(instances[c].log[i], "metrics")
        /\ instances[d].session.ended
        /\ server.rows[instances[d].session.id] = instances[d].session
        /\ server.rows[instances[c].session.id] # instances[d].session

====
